---- MODULE Spec2Model ----
(***************************************************************************)
(* Binomial (Cox-Ross-Rubinstein) pricer, payoff-expression sandbox and    *)
(* Monte Carlo pricer of src/binomial_option.py and                        *)
(* src/monte_carlo_option.py.                                              *)
(*                                                                         *)
(* Floats are modelled as fixed-point integers with SCALE units per 1.0;   *)
(* a Python int (steps, paths, an integer literal) is a plain integer.     *)
(* One behaviour is one program run: a call of binomial_option_price, or   *)
(* a call of payoff_from_expression followed by either one invocation of   *)
(* the returned payoff or a call of monte_carlo_option_price with it.      *)
(***************************************************************************)
EXTENDS Integers, Sequences, FiniteSets, TLC

VARIABLES
    entry,           \* which entry point this run calls
    args,            \* keyword arguments of the pricing call
    pc,              \* position in the running function
    raised,          \* exception that ended the call, "" while none
    derived,         \* dt, up, down, growth, probability (binomial); dt, drift, diffusion (Monte Carlo)
    asset_prices,    \* binomial: asset price lattice
    option_values,   \* binomial: option value lattice
    discount,        \* binomial: per-step discount factor
    step,            \* loop variable of the running loop
    expression,      \* sandbox: syntax tree of the payoff expression, or the unparsable text
    allowed_globals, \* sandbox: globals of the compiled payoff
    invocations,     \* sandbox: (price, path) pairs the payoff has been invoked with
    outcome,         \* sandbox: what the last payoff invocation produced
    simulated_paths, \* Monte Carlo: finished paths
    payoffs,         \* Monte Carlo: recorded payoffs
    prices,          \* Monte Carlo: path under construction
    price,           \* Monte Carlo: running price of the path under construction
    draws,           \* Monte Carlo: number of gauss(0, 1) samples drawn
    price_estimate   \* Monte Carlo: discounted mean payoff

vars == <<entry, args, pc, raised, derived, asset_prices, option_values, discount,
          step, expression, allowed_globals, invocations, outcome,
          simulated_paths, payoffs, prices, price, draws, price_estimate>>

binomial_vars == <<asset_prices, option_values, discount>>
sandbox_vars == <<expression, allowed_globals, invocations, outcome>>
monte_carlo_vars == <<simulated_paths, payoffs, prices, price, draws, price_estimate>>

----------------------------------------------------------------------------
(* Bounds *)

SCALE == 1000
MaxSteps == 3
MaxPaths == 2
ExpTerms == 12

----------------------------------------------------------------------------
(* Fixed-point arithmetic standing for Python float arithmetic *)

Mul(a, b) == (a * b) \div SCALE

Div(a, b) == (a * SCALE) \div b

Max(a, b) == IF a >= b THEN a ELSE b

Min(a, b) == IF a <= b THEN a ELSE b

RECURSIVE SqrtSearch(_, _, _)
SqrtSearch(n, lo, hi) ==
    IF lo >= hi THEN lo
    ELSE LET mid == (lo + hi + 1) \div 2
         IN  IF mid * mid <= n THEN SqrtSearch(n, mid, hi)
             ELSE SqrtSearch(n, lo, mid - 1)

\* math.sqrt for x >= 0
Sqrt(x) == SqrtSearch(x * SCALE, 0, Max(x, SCALE))

RECURSIVE ExpSeries(_, _, _)
ExpSeries(x, term, k) ==
    IF k > ExpTerms \/ term = 0 THEN 0
    ELSE term + ExpSeries(x, (term * x) \div (k * SCALE), k + 1)

\* math.exp: exp(-x) is 1/exp(x), so that exp is positive and monotone
Exp(x) == IF x >= 0 THEN ExpSeries(x, SCALE, 1)
          ELSE Div(SCALE, ExpSeries(-x, SCALE, 1))

RECURSIVE Pow(_, _)
Pow(x, n) == IF n = 0 THEN SCALE ELSE Mul(Pow(x, n - 1), x)

Last(s) == s[Len(s)]

----------------------------------------------------------------------------
(* Input domains *)

Spots == {-SCALE, 0, 2 * SCALE}
Strikes == {0, 2 * SCALE, 3 * SCALE}
Maturities == {0, SCALE}
Rates == {0, SCALE \div 20, SCALE \div 2}
Volatilities == {-(SCALE \div 10), 0, SCALE \div 5}
Dividends == {0, (3 * SCALE) \div 10}
OptionTypes == {"call", "put", "straddle"}

BinomialArgs ==
    [spot : Spots, strike : Strikes, maturity : Maturities, rate : Rates,
     volatility : Volatilities, steps : 0..MaxSteps, option_type : OptionTypes,
     american : BOOLEAN, dividend : Dividends]

MonteCarloArgs ==
    [spot : Spots, maturity : Maturities, rate : Rates, volatility : Volatilities,
     steps : 0..MaxSteps, paths : 0..MaxPaths]

\* values gauss(0, 1) returns
Normals == {-SCALE, SCALE}

NoArgs == [spot |-> 0]
NoDerived == [dt |-> 0]

----------------------------------------------------------------------------
(* src/binomial_option.py *)

\* _validate_parameters without the check of line 31
_validate_parameters_NoVolatilityCheck(spot, strike, maturity, rate, volatility, steps) ==
    IF spot <= 0 THEN "Spot price must be positive."
    ELSE IF strike <= 0 THEN "Strike price must be positive."
    ELSE IF maturity <= 0 THEN "Maturity must be positive."
    ELSE IF steps <= 0 THEN "Steps must be a positive integer."
    ELSE ""

\* The message of the ValueError _validate_parameters raises, "" when it returns
_validate_parameters(spot, strike, maturity, rate, volatility, steps) ==
    IF spot <= 0 THEN "Spot price must be positive."
    ELSE IF strike <= 0 THEN "Strike price must be positive."
    ELSE IF maturity <= 0 THEN "Maturity must be positive."
    ELSE IF steps <= 0 THEN "Steps must be a positive integer."
    ELSE IF volatility < 0 THEN "Volatility must be non-negative."
    ELSE ""

\* lines 71-74: parameter validation and the option_type check
BinomialValidate ==
    /\ entry = "binomial" /\ pc = "validate"
    /\ LET msg == _validate_parameters(args.spot, args.strike, args.maturity,
                                       args.rate, args.volatility, args.steps)
       IN  IF msg # "" THEN pc' = "raised" /\ raised' = "ValueError"
           ELSE IF args.option_type \notin {"call", "put"}
                THEN pc' = "raised" /\ raised' = "ValueError"
                ELSE pc' = "derive" /\ raised' = raised
    /\ UNCHANGED <<entry, args, derived, step, binomial_vars, sandbox_vars, monte_carlo_vars>>

\* lines 76-79
LatticeConstants(a) ==
    LET dt == a.maturity \div a.steps
        up == Exp(Mul(a.volatility, Sqrt(dt)))
        down == Div(SCALE, up)
        growth == Exp(Mul(a.rate - a.dividend, dt))
    IN  [dt |-> dt, up |-> up, down |-> down, growth |-> growth]

\* line 80
probability_of(c) == Div(c.growth - c.down, c.up - c.down)

\* line 82
ArbitrageFree(probability) == 0 <= probability /\ probability <= SCALE

\* lines 76-83: derived constants; the division of line 80 raises
\* ZeroDivisionError when up = down
BinomialDerive ==
    /\ entry = "binomial" /\ pc = "derive"
    /\ LET c == LatticeConstants(args)
       IN  IF c.up - c.down = 0
           THEN /\ pc' = "raised" /\ raised' = "ZeroDivisionError"
                /\ derived' = c
                /\ step' = step
           ELSE LET probability == probability_of(c)
                IN  /\ derived' = c @@ [probability |-> probability]
                    /\ IF ~ArbitrageFree(probability)
                       THEN pc' = "raised" /\ raised' = "ValueError" /\ step' = step
                       ELSE pc' = "forward" /\ raised' = raised /\ step' = 0
    /\ UNCHANGED <<entry, args, binomial_vars, sandbox_vars, monte_carlo_vars>>

\* line 88 with range(step) for range(step + 1)
LatticeLevel_ShortRange(spot, up, down, s) ==
    [j \in 1..s |-> Mul(Mul(spot, Pow(up, j - 1)), Pow(down, s - (j - 1)))]

\* line 88
LatticeLevel(spot, up, down, s) ==
    [j \in 1..(s + 1) |-> Mul(Mul(spot, Pow(up, j - 1)), Pow(down, s - (j - 1)))]

\* lines 87-89: one iteration of the forward pass
BinomialForward ==
    /\ entry = "binomial" /\ pc = "forward"
    /\ step <= args.steps
    /\ asset_prices' = Append(asset_prices, LatticeLevel(args.spot, derived.up, derived.down, step))
    /\ IF step = args.steps THEN pc' = "terminal" /\ step' = step
       ELSE pc' = pc /\ step' = step + 1
    /\ UNCHANGED <<entry, args, raised, derived, option_values, discount,
                   sandbox_vars, monte_carlo_vars>>

\* lines 95-98 and 113-117
Intrinsic(option_type, p, strike) ==
    IF option_type = "call" THEN Max(p - strike, 0) ELSE Max(strike - p, 0)

\* lines 93-99
TerminalValues(level, option_type, strike) ==
    [j \in 1..Len(level) |-> Intrinsic(option_type, level[j], strike)]

\* lines 92-102: terminal option values and the discount factor
BinomialTerminal ==
    /\ entry = "binomial" /\ pc = "terminal"
    /\ option_values' = [s \in 1..(args.steps + 1) |->
                            IF s = args.steps + 1
                            THEN TerminalValues(Last(asset_prices), args.option_type, args.strike)
                            ELSE <<>>]
    /\ discount' = Exp(Mul(-args.rate, derived.dt))
    /\ pc' = "backward"
    /\ step' = args.steps - 1
    /\ UNCHANGED <<entry, args, raised, derived, asset_prices, sandbox_vars, monte_carlo_vars>>

\* lines 108-111
Continuation(disc, probability, next_values, node) ==
    Mul(disc, Mul(probability, next_values[node + 1])
              + Mul(SCALE - probability, next_values[node]))

\* lines 112-120 with the intrinsic value taken in place of the maximum
NodeValue_NoMax(american, continuation, intrinsic) ==
    IF american THEN intrinsic ELSE continuation

\* lines 112-120
NodeValue(american, continuation, intrinsic) ==
    IF american THEN Max(continuation, intrinsic) ELSE continuation

\* lines 106-121: the values of one level, from the level after it
BackwardLevel(a, disc, probability, level_prices, next_values, s) ==
    [node \in 1..(s + 1) |->
        NodeValue(a.american,
                  Continuation(disc, probability, next_values, node),
                  Intrinsic(a.option_type, level_prices[node], a.strike))]

\* lines 105-122: one iteration of the backward induction
BinomialBackward ==
    /\ entry = "binomial" /\ pc = "backward"
    /\ step >= 0
    /\ option_values' = [option_values EXCEPT ![step + 1] =
            BackwardLevel(args, discount, derived.probability,
                          asset_prices[step + 1], option_values[step + 2], step)]
    /\ IF step = 0 THEN pc' = "done" /\ step' = step
       ELSE pc' = pc /\ step' = step - 1
    /\ UNCHANGED <<entry, args, raised, derived, asset_prices, discount,
                   sandbox_vars, monte_carlo_vars>>

----------------------------------------------------------------------------
(* src/monte_carlo_option.py: syntax trees of payoff expressions           *)
(*                                                                         *)
(* A node is [kind, id, num, kids]: kind is the ast class, id the          *)
(* identifier (Name), attribute name (Attribute) or literal type           *)
(* (Constant), num the value of an integer literal, kids the child nodes   *)
(* in field order.  The operator of a BinOp is its middle child, as in     *)
(* ast.  The ctx child (always ast.Load, which is allowed) is left out.    *)

Node(kind, id, num, kids) == [kind |-> kind, id |-> id, num |-> num, kids |-> kids]

Name(id) == Node("Name", id, 0, <<>>)
IntConst(k) == Node("Constant", "int", k, <<>>)
StrConst == Node("Constant", "str", 0, <<>>)
Attribute(value, attr) == Node("Attribute", attr, 0, <<value>>)
BinOp(left, op, right) == Node("BinOp", "", 0, <<left, Node(op, "", 0, <<>>), right>>)
Subscript(value, index) == Node("Subscript", "", 0, <<value, index>>)
Call1(func, a) == Node("Call", "", 0, <<func, a>>)
Call2(func, a, b) == Node("Call", "", 0, <<func, a, b>>)
Lambda == Node("Lambda", "", 0, <<>>)
Keyword(value) == Node("keyword", "key", 0, <<value>>)
Expression(body) == Node("Expression", "", 0, <<body>>)

\* what ast.parse(expression, mode="eval") makes of a text: a tree, or SyntaxError
Parsed(body) == [parses |-> TRUE, tree |-> Expression(body)]
Unparsable == [parses |-> FALSE, tree |-> Node("SyntaxError", "", 0, <<>>)]

\* dir(math), a representative part: functions, a float constant, dunder attributes
MathDir == {"__doc__", "__name__", "exp", "sqrt", "pi"}

\* the names s for which s.startswith("__")
Dunder == {"__doc__", "__name__", "__import__", "__class__", "__builtins__"}

\* lines 31-65
_allowed_nodes ==
    {"Expression", "BinOp", "UnaryOp", "BoolOp", "Compare", "IfExp", "Call", "Name",
     "Load", "Constant", "List", "Tuple", "Subscript", "Slice", "Index", "Attribute",
     "And", "Or", "Eq", "NotEq", "Lt", "LtE", "Gt", "GtE", "Add", "Sub", "Mult",
     "Div", "Pow", "FloorDiv", "Mod", "USub", "UAdd"}

\* line 67
_allowed_names == {"price", "path"}

\* line 68
_helper_functions == {"max", "min"}

\* lines 69-70
_allowed_functions == {name \in MathDir : name \notin Dunder} \cup _helper_functions

\* lines 77-79: the error visit_Name raises, "" when it returns
visit_Name(node) ==
    IF node.id \notin _allowed_names /\ node.id \notin _allowed_functions
    THEN "Unknown name in payoff expression"
    ELSE ""

\* lines 82-93: the callee check of visit_Call, "" when it passes
CalleeCheck(func) ==
    IF func.kind = "Attribute"
    THEN IF ~(/\ func.kids[1].kind = "Name"
              /\ func.kids[1].id = "math"
              /\ func.id \in _allowed_functions)
         THEN "Only math module functions are allowed in calls."
         ELSE ""
    ELSE IF func.kind = "Name"
         THEN IF func.id \notin _allowed_functions
              THEN "Function is not allowed."
              ELSE ""
         ELSE "Invalid function call in expression."

RECURSIVE visit(_), generic_visit(_, _), visit_Call(_)

\* lines 72-75, with NodeVisitor.visit's dispatch on the class of the node
visit(node) ==
    IF node.kind \notin _allowed_nodes THEN "Unsupported expression"
    ELSE IF node.kind = "Name" THEN visit_Name(node)
    ELSE IF node.kind = "Call" THEN visit_Call(node)
    ELSE generic_visit(node, 1)

\* ast.NodeVisitor.generic_visit: visit the children in field order, from the
\* i-th on; the first error ends the walk
generic_visit(node, i) ==
    IF i > Len(node.kids) THEN ""
    ELSE LET err == visit(node.kids[i])
         IN  IF err # "" THEN err ELSE generic_visit(node, i + 1)

\* lines 81-94
visit_Call(node) ==
    LET err == CalleeCheck(node.kids[1])
    IN  IF err # "" THEN err ELSE generic_visit(node, 1)

\* line 116: the kind of object getattr(math, name) is
MathBinding(name) == IF name = "pi" THEN "float" ELSE "builtin_function"

\* lines 116-118: name -> kind of the object bound to it
AllowedGlobals ==
    LET math_names == {name \in MathDir : name \in _allowed_functions}
    IN  [name \in math_names \cup _helper_functions \cup {"math", "__builtins__"} |->
            IF name = "math" THEN "module"
            ELSE IF name = "__builtins__" THEN "dict"
            ELSE IF name \in _helper_functions THEN "builtin_function"
            ELSE MathBinding(name)]

----------------------------------------------------------------------------
(* Evaluation of a compiled expression: eval(compiled, globals, locals)    *)
(*                                                                         *)
(* A value is [t, n, s, name]: t is "float" (n in fixed point), "int" (n), *)
(* "list" (s, of fixed-point floats), "str", "type", "function" (name),    *)
(* "module", "dict" or "raise" (name is the exception class).              *)

Value(t, n, s, name) == [t |-> t, n |-> n, s |-> s, name |-> name]
FloatValue(n) == Value("float", n, <<>>, "")
IntValue(n) == Value("int", n, <<>>, "")
ListValue(s) == Value("list", 0, s, "")
Object(t) == Value(t, 0, <<>>, "")
Function(name) == Value("function", 0, <<>>, name)
Raise(exc) == Value("raise", 0, <<>>, exc)

IsNumber(v) == v.t \in {"float", "int"}
AsFloat(v) == IF v.t = "int" THEN v.n * SCALE ELSE v.n

\* math.pi
Pi == (3141 * SCALE) \div 1000

RECURSIVE ListMax(_, _)
ListMax(s, i) == IF i = Len(s) THEN s[i] ELSE Max(s[i], ListMax(s, i + 1))

RECURSIVE ListMin(_, _)
ListMin(s, i) == IF i = Len(s) THEN s[i] ELSE Min(s[i], ListMin(s, i + 1))

\* name lookup of eval: locals, then globals, then globals["__builtins__"] (empty)
Resolve(id, env) ==
    IF id = "price" THEN FloatValue(env.price)
    ELSE IF id = "path" THEN ListValue(env.path)
    ELSE IF id \in DOMAIN env.globals
         THEN LET kind == env.globals[id]
              IN  IF kind = "builtin_function" THEN Function(id)
                  ELSE IF kind = "float" THEN FloatValue(Pi)
                  ELSE Object(kind)
         ELSE Raise("NameError")

\* getattr(v, attr) for the attributes of the input domain
GetAttr(v, attr) ==
    IF attr = "__class__" THEN Object("type")
    ELSE IF attr = "real" /\ IsNumber(v) THEN v
    ELSE IF v.t = "module" /\ attr \in MathDir \ Dunder
         THEN (IF MathBinding(attr) = "float" THEN FloatValue(Pi) ELSE Function(attr))
    ELSE Raise("AttributeError")

\* a call of the object bound to a registered function name; math.exp overflows
\* a double above 709.78
Apply(name, argv) ==
    IF name \in {"max", "min"}
    THEN IF Len(argv) = 1
         THEN IF argv[1].t # "list" THEN Raise("TypeError")
              ELSE IF argv[1].s = <<>> THEN Raise("ValueError")
              ELSE IF name = "max" THEN FloatValue(ListMax(argv[1].s, 1))
              ELSE FloatValue(ListMin(argv[1].s, 1))
         ELSE IF Len(argv) = 2 /\ IsNumber(argv[1]) /\ IsNumber(argv[2])
              THEN IF name = "max"
                   THEN (IF AsFloat(argv[2]) > AsFloat(argv[1]) THEN argv[2] ELSE argv[1])
                   ELSE (IF AsFloat(argv[2]) < AsFloat(argv[1]) THEN argv[2] ELSE argv[1])
              ELSE Raise("TypeError")
    ELSE IF Len(argv) # 1 \/ ~IsNumber(argv[1]) THEN Raise("TypeError")
    ELSE IF name = "exp"
         THEN IF AsFloat(argv[1]) > 709 * SCALE THEN Raise("OverflowError")
              ELSE FloatValue(Exp(AsFloat(argv[1])))
    ELSE IF name = "sqrt"
         THEN IF AsFloat(argv[1]) < 0 THEN Raise("ValueError")
              ELSE FloatValue(Sqrt(AsFloat(argv[1])))
    ELSE Raise("TypeError")

\* left <op> right
BinaryOp(op, left, right) ==
    IF ~(IsNumber(left) /\ IsNumber(right)) THEN Raise("TypeError")
    ELSE IF op = "Sub"
         THEN IF left.t = "int" /\ right.t = "int" THEN IntValue(left.n - right.n)
              ELSE FloatValue(AsFloat(left) - AsFloat(right))
    ELSE IF op = "Div"
         THEN IF AsFloat(right) = 0 THEN Raise("ZeroDivisionError")
              ELSE FloatValue(Div(AsFloat(left), AsFloat(right)))
    ELSE Raise("TypeError")

\* value[index]
GetItem(value, index) ==
    IF value.t # "list" \/ index.t # "int" THEN Raise("TypeError")
    ELSE LET i == IF index.n < 0 THEN index.n + Len(value.s) ELSE index.n
         IN  IF i < 0 \/ i >= Len(value.s) THEN Raise("IndexError")
             ELSE FloatValue(value.s[i + 1])

RECURSIVE Eval(_, _), EvalAll(_, _, _)

\* the values of the children of node from the i-th on, left to right
EvalAll(node, i, env) ==
    IF i > Len(node.kids) THEN <<>>
    ELSE <<Eval(node.kids[i], env)>> \o EvalAll(node, i + 1, env)

FirstRaise(vs) ==
    LET raising == {i \in 1..Len(vs) : vs[i].t = "raise"}
    IN  IF raising = {} THEN 0 ELSE CHOOSE i \in raising : \A j \in raising : i <= j

\* eval of a validated tree; the validator rejects every kind not listed here
Eval(node, env) ==
    IF node.kind = "Expression" THEN Eval(node.kids[1], env)
    ELSE IF node.kind = "Constant"
         THEN (IF node.id = "int" THEN IntValue(node.num) ELSE Object("str"))
    ELSE IF node.kind = "Name" THEN Resolve(node.id, env)
    ELSE IF node.kind = "Attribute"
         THEN LET v == Eval(node.kids[1], env)
              IN  IF v.t = "raise" THEN v ELSE GetAttr(v, node.id)
    ELSE IF node.kind = "BinOp"
         THEN LET left == Eval(node.kids[1], env)
                  right == Eval(node.kids[3], env)
              IN  IF left.t = "raise" THEN left
                  ELSE IF right.t = "raise" THEN right
                  ELSE BinaryOp(node.kids[2].kind, left, right)
    ELSE IF node.kind = "Subscript"
         THEN LET vs == EvalAll(node, 1, env)
              IN  IF FirstRaise(vs) # 0 THEN vs[FirstRaise(vs)]
                  ELSE GetItem(vs[1], vs[2])
    ELSE IF node.kind = "Call"
         THEN LET vs == EvalAll(node, 1, env)
              IN  IF FirstRaise(vs) # 0 THEN vs[FirstRaise(vs)]
                  ELSE IF vs[1].t # "function" THEN Raise("TypeError")
                  ELSE Apply(vs[1].name, SubSeq(vs, 2, Len(vs)))
    ELSE Raise("TypeError")

\* float(x) of line 121
ToFloat(v) ==
    IF v.t = "raise" THEN v
    ELSE IF IsNumber(v) THEN FloatValue(AsFloat(v))
    ELSE IF v.t = "str" THEN Raise("ValueError")
    ELSE Raise("TypeError")

\* lines 120-121: the payoff function payoff_from_expression returns
payoff(tree, globals, p, path) ==
    ToFloat(Eval(tree, [price |-> p, path |-> path, globals |-> globals]))

\* lines 106-112: the error payoff_from_expression raises, "" when it returns
payoff_from_expression(source) ==
    IF ~source.parses THEN "Invalid payoff expression"
    ELSE visit(source.tree)

----------------------------------------------------------------------------
(* Payoff expressions given to payoff_from_expression *)

Price == Name("price")
Path == Name("path")
PriceMinus(k) == BinOp(Price, "Sub", IntConst(k))

NameIds == {"price", "path", "math", "exp", "sqrt", "pi", "max", "os", "__import__", "__doc__"}
AttributeIds == {"__class__", "real", "exp", "sqrt", "pi"}
Receivers == {Price, Path, Name("math"), Name("os")}

Names == {Name(id) : id \in NameIds}
Constants == {IntConst(0), IntConst(2), IntConst(5), StrConst}
Attributes == {Attribute(r, a) : r \in Receivers, a \in AttributeIds}
Subscripts == {Subscript(Path, i) : i \in {IntConst(0), IntConst(5), IntConst(-1), Price}}
                  \cup {Subscript(Price, IntConst(0))}
BinOps == {BinOp(l, op, r) : l \in {Price, Path, Subscript(Path, IntConst(0)), Attribute(Price, "real")},
                             op \in {"Sub", "Div", "BitXor"},
                             r \in {IntConst(0), IntConst(2), Price, Name("pi"), Name("os")}}
Callees == Names \cup Attributes
               \cup {Subscript(Path, IntConst(0)), Lambda, Call2(Name("max"), Price, IntConst(0))}
Arguments == {Price, Path, IntConst(0), PriceMinus(2), PriceMinus(5),
              Attribute(Price, "__class__"), Attribute(Path, "__class__"), Name("os")}
Calls == {Call1(f, a) : f \in Callees, a \in Arguments}
             \cup {Call2(f, a, IntConst(0)) : f \in {Name("max"), Name("exp"), Name("os")},
                                               a \in Arguments}
             \cup {Call2(Name("max"), Price, Keyword(IntConst(0)))}

\* max(price - 2, 0), path[0], 2 / (price - 2), sqrt(price - 2)
MonteCarloBodies ==
    {Call2(Name("max"), PriceMinus(2), IntConst(0)),
     Subscript(Path, IntConst(0)),
     BinOp(IntConst(2), "Div", PriceMinus(2)),
     Call1(Name("sqrt"), PriceMinus(2))}

Bodies == Names \cup Constants \cup Attributes \cup Subscripts \cup BinOps \cup Calls
              \cup MonteCarloBodies \cup {Lambda}

Sources == {Unparsable} \cup {Parsed(b) : b \in Bodies}

\* terminal prices the payoff is invoked with directly; the path ends in the price
InvokePrices == {SCALE, 3 * SCALE}
InvokePath(p) == <<2 * SCALE, p>>

----------------------------------------------------------------------------
(* payoff_from_expression and a direct invocation of its result *)

\* lines 106-123
Compile ==
    /\ entry \in {"sandbox", "monte_carlo"} /\ pc = "compile"
    /\ LET err == payoff_from_expression(expression)
       IN  IF err # ""
           THEN pc' = "raised" /\ raised' = "ValueError" /\ allowed_globals' = allowed_globals
           ELSE pc' = "compiled" /\ raised' = raised /\ allowed_globals' = AllowedGlobals
    /\ UNCHANGED <<entry, args, derived, step, binomial_vars, expression, invocations,
                   outcome, monte_carlo_vars>>

\* lines 120-121, called with a terminal price and a path
Invoke ==
    /\ entry = "sandbox" /\ pc = "compiled"
    /\ \E p \in InvokePrices :
          LET v == payoff(expression.tree, allowed_globals, p, InvokePath(p))
          IN  /\ invocations' = Append(invocations, [price |-> p, path |-> InvokePath(p)])
              /\ outcome' = v
              /\ IF v.t = "raise" THEN pc' = "raised" /\ raised' = v.name
                 ELSE pc' = "returned" /\ raised' = raised
    /\ UNCHANGED <<entry, args, derived, step, binomial_vars, expression, allowed_globals,
                   monte_carlo_vars>>

----------------------------------------------------------------------------
(* monte_carlo_option_price *)

\* lines 12-14
_validate_positive(name, value) == IF value <= 0 THEN name ELSE ""

\* lines 17-25: the parameter the ValueError names, "" when _validate_inputs returns
_validate_inputs(spot, maturity, rate, volatility, steps, paths) ==
    IF _validate_positive("spot", spot) # "" THEN "spot"
    ELSE IF _validate_positive("maturity", maturity) # "" THEN "maturity"
    ELSE IF _validate_positive("steps", steps) # "" THEN "steps"
    ELSE IF _validate_positive("paths", paths) # "" THEN "paths"
    ELSE IF volatility < 0 THEN "volatility"
    ELSE ""

\* lines 147-149
SimulationConstants(a) ==
    LET dt == a.maturity \div a.steps
    IN  [dt |-> dt,
         drift |-> Mul(a.rate - Mul(Mul(SCALE \div 2, a.volatility), a.volatility), dt),
         diffusion |-> Mul(a.volatility, Sqrt(dt))]

\* lines 145-152
MonteCarloValidate ==
    /\ entry = "monte_carlo" /\ pc = "compiled"
    /\ IF _validate_inputs(args.spot, args.maturity, args.rate, args.volatility,
                           args.steps, args.paths) # ""
       THEN pc' = "raised" /\ raised' = "ValueError" /\ derived' = derived
       ELSE pc' = "paths" /\ raised' = raised /\ derived' = SimulationConstants(args)
    /\ UNCHANGED <<entry, args, step, binomial_vars, sandbox_vars, monte_carlo_vars>>

\* line 155 with an empty initial path
StartPath_Empty(spot) == <<>>

\* line 155
StartPath(spot) == <<spot>>

\* lines 154-156: the start of one trial
MonteCarloBeginPath ==
    /\ entry = "monte_carlo" /\ pc = "paths"
    /\ Len(simulated_paths) < args.paths
    /\ prices' = StartPath(args.spot)
    /\ price' = args.spot
    /\ step' = 0
    /\ pc' = "steps"
    /\ UNCHANGED <<entry, args, raised, derived, binomial_vars, sandbox_vars,
                   simulated_paths, payoffs, draws, price_estimate>>

\* lines 158-159
NextPrice(p, drift, diffusion, z) == Mul(p, Exp(drift + Mul(diffusion, z)))

\* lines 157-160: one increment of the path
MonteCarloStep ==
    /\ entry = "monte_carlo" /\ pc = "steps"
    /\ step < args.steps
    /\ \E z \in Normals :
          /\ price' = NextPrice(price, derived.drift, derived.diffusion, z)
          /\ prices' = Append(prices, price')
    /\ draws' = draws + 1
    /\ step' = step + 1
    /\ UNCHANGED <<entry, args, pc, raised, derived, binomial_vars, sandbox_vars,
                   simulated_paths, payoffs, price_estimate>>

\* line 162 with the initial price passed for the final one
PayoffArguments_InitialPrice(p, ps) == [price |-> ps[1], path |-> ps]

\* line 162: the arguments the payoff is called with
PayoffArguments(p, ps) == [price |-> p, path |-> ps]

\* lines 161-162: the end of one trial
MonteCarloEndPath ==
    /\ entry = "monte_carlo" /\ pc = "steps"
    /\ step = args.steps
    /\ simulated_paths' = Append(simulated_paths, prices)
    /\ LET a == PayoffArguments(price, prices)
           v == payoff(expression.tree, allowed_globals, a.price, a.path)
       IN  /\ invocations' = Append(invocations, a)
           /\ outcome' = v
           /\ IF v.t = "raise"
              THEN pc' = "raised" /\ raised' = v.name /\ payoffs' = payoffs
              ELSE pc' = "paths" /\ raised' = raised /\ payoffs' = Append(payoffs, v.n)
    /\ UNCHANGED <<entry, args, derived, step, binomial_vars, expression, allowed_globals,
                   prices, price, draws, price_estimate>>

RECURSIVE Sum(_, _)
Sum(s, i) == IF i > Len(s) THEN 0 ELSE s[i] + Sum(s, i + 1)

\* lines 164-165
PriceEstimate(a, ps) == Mul(Exp(Mul(-a.rate, a.maturity)), Sum(ps, 1)) \div Len(ps)

\* lines 164-167
MonteCarloReturn ==
    /\ entry = "monte_carlo" /\ pc = "paths"
    /\ Len(simulated_paths) = args.paths
    /\ price_estimate' = PriceEstimate(args, payoffs)
    /\ pc' = "done"
    /\ UNCHANGED <<entry, args, raised, derived, step, binomial_vars, sandbox_vars,
                   simulated_paths, payoffs, prices, price, draws>>

----------------------------------------------------------------------------

InitCommon ==
    /\ raised = ""
    /\ derived = NoDerived
    /\ asset_prices = <<>>
    /\ option_values = <<>>
    /\ discount = 0
    /\ step = 0
    /\ allowed_globals = <<>>
    /\ invocations = <<>>
    /\ outcome = Object("None")
    /\ simulated_paths = <<>>
    /\ payoffs = <<>>
    /\ prices = <<>>
    /\ price = 0
    /\ draws = 0
    /\ price_estimate = 0

InitBinomial ==
    /\ entry = "binomial"
    /\ args \in BinomialArgs
    /\ pc = "validate"
    /\ expression = Unparsable
    /\ InitCommon

InitSandbox ==
    /\ entry = "sandbox"
    /\ args = NoArgs
    /\ pc = "compile"
    /\ expression \in Sources
    /\ InitCommon

InitMonteCarlo ==
    /\ entry = "monte_carlo"
    /\ args \in MonteCarloArgs
    /\ pc = "compile"
    /\ expression \in {Parsed(b) : b \in MonteCarloBodies}
    /\ InitCommon

Init == InitBinomial \/ InitSandbox \/ InitMonteCarlo

Next ==
    \/ BinomialValidate
    \/ BinomialDerive
    \/ BinomialForward
    \/ BinomialTerminal
    \/ BinomialBackward
    \/ Compile
    \/ Invoke
    \/ MonteCarloValidate
    \/ MonteCarloBeginPath
    \/ MonteCarloStep
    \/ MonteCarloEndPath
    \/ MonteCarloReturn

Spec == Init /\ [][Next]_vars

----------------------------------------------------------------------------
(* Properties *)

\* payoff_from_expression returned a payoff: its globals are built only then
Accepted == allowed_globals # <<>>

RECURSIVE HasInputAttribute(_)
\* the tree has an attribute access whose receiver is the name price or path
HasInputAttribute(node) ==
    \/ /\ node.kind = "Attribute"
       /\ node.kids[1].kind = "Name"
       /\ node.kids[1].id \in {"price", "path"}
    \/ \E i \in 1..Len(node.kids) : HasInputAttribute(node.kids[i])

\* C1: payoff_from_expression rejects every expression that has an attribute
\* access on price or path, called or not.
C1_InputAttributeRejected ==
    (entry = "sandbox" /\ expression.parses /\ HasInputAttribute(expression.tree))
        => ~Accepted

\* the callee is a registered function as a bare name or as math.<name>
RegisteredCallee(func) ==
    \/ func.kind = "Name" /\ func.id \in {"exp", "sqrt", "pi", "max", "min"}
    \/ /\ func.kind = "Attribute"
       /\ func.kids[1] = Name("math")
       /\ func.id \in {"exp", "sqrt", "pi", "max", "min"}

\* C2: a call <callee>(price) is accepted exactly when the callee is a
\* registered function given as a bare name or as math.<name>.
C2_RegisteredCalleesAccepted ==
    (/\ entry = "sandbox" /\ pc # "compile" /\ expression.parses
     /\ expression.tree.kids[1].kind = "Call"
     /\ Len(expression.tree.kids[1].kids) = 2
     /\ expression.tree.kids[1].kids[2] = Price)
        => (Accepted <=> RegisteredCallee(expression.tree.kids[1].kids[1]))

\* C3: an invocation of a payoff that payoff_from_expression returned never
\* raises: it produces a value.
C3_PayoffNeverRaises ==
    invocations # <<>> => outcome.t # "raise"

BinomialInputInvalid ==
    \/ args.spot <= 0 \/ args.strike <= 0 \/ args.maturity <= 0 \/ args.steps <= 0
    \/ args.volatility < 0
    \/ args.option_type \notin {"call", "put"}
    \/ ("probability" \in DOMAIN derived
            /\ (derived.probability < 0 \/ derived.probability > SCALE))

MonteCarloInputInvalid ==
    \/ args.spot <= 0 \/ args.maturity <= 0 \/ args.steps <= 0 \/ args.paths <= 0
    \/ args.volatility < 0

\* C4: with an invalid input the pricing call gets no further than raising its
\* error: binomial_option_price has built no lattice level, and
\* monte_carlo_option_price has drawn no sample and invoked no payoff.
C4_FailFast ==
    /\ (entry = "binomial" /\ BinomialInputInvalid)
          => /\ pc \in {"validate", "derive", "raised"}
             /\ asset_prices = <<>> /\ option_values = <<>>
    /\ (entry = "monte_carlo" /\ MonteCarloInputInvalid)
          => /\ pc \in {"compile", "compiled", "raised"}
             /\ draws = 0 /\ invocations = <<>>
             /\ simulated_paths = <<>> /\ prices = <<>> /\ payoffs = <<>>

\* volatility = -0.1 with every other input valid: the call has raised
C4_Witness ==
    /\ entry = "binomial" /\ pc = "raised" /\ raised = "ValueError"
    /\ args.volatility < 0
    /\ args.spot > 0 /\ args.strike > 0 /\ args.maturity > 0 /\ args.steps > 0
    /\ args.option_type = "call"

BinomialConstraintsHold ==
    /\ args.spot > 0 /\ args.strike > 0 /\ args.maturity > 0 /\ args.steps > 0
    /\ args.volatility >= 0
    /\ args.option_type \in {"call", "put"}

\* C5: with inputs that satisfy the parameter constraints (volatility = 0
\* included) binomial_option_price returns a result or raises the arbitrage
\* error; it never fails in any other way.
C5_OnlyArbitrageError ==
    (entry = "binomial" /\ BinomialConstraintsHold /\ pc = "raised")
        => /\ raised = "ValueError"
           /\ "probability" \in DOMAIN derived
           /\ ~ArbitrageFree(derived.probability)

\* C6: the asset price lattice is triangular (level s has s + 1 entries) and
\* starts with [spot]; the returned lattices both have steps + 1 levels and the
\* option value lattice has the same triangular shape.
C6_TriangularLattices ==
    entry = "binomial" =>
        /\ \A s \in 1..Len(asset_prices) : Len(asset_prices[s]) = s
        /\ asset_prices # <<>> => asset_prices[1] = <<args.spot>>
        /\ pc = "done" =>
              /\ Len(asset_prices) = args.steps + 1
              /\ Len(option_values) = args.steps + 1
              /\ \A s \in 1..(args.steps + 1) : Len(option_values[s]) = s

C6_Witness ==
    /\ entry = "binomial" /\ pc = "done" /\ args.steps >= 2
    /\ Len(asset_prices[args.steps + 1]) = args.steps + 1

RECURSIVE EuropeanLevel(_)
\* the option values of level s (0-based) of the European lattice for the
\* arguments and asset prices of this call
EuropeanLevel(s) ==
    IF s = args.steps
    THEN TerminalValues(asset_prices[s + 1], args.option_type, args.strike)
    ELSE BackwardLevel([args EXCEPT !.american = FALSE], discount, derived.probability,
                       asset_prices[s + 1], EuropeanLevel(s + 1), s)

\* C7: at every node of the lattice the American value is at least the
\* European value for the same arguments (which is what the European call
\* returns); in particular the American price is at least the European price.
C7_AmericanAtLeastEuropean ==
    (entry = "binomial" /\ pc = "done") =>
        \A s \in 0..args.steps :
            IF args.american
            THEN \A node \in 1..(s + 1) :
                    option_values[s + 1][node] >= EuropeanLevel(s)[node]
            ELSE option_values[s + 1] = EuropeanLevel(s)

\* an American put for which early exercise is worth more than waiting
C7_Witness ==
    /\ entry = "binomial" /\ pc = "done" /\ args.american
    /\ args.steps >= 2
    /\ option_values[1][1] > EuropeanLevel(0)[1]

\* C8: the result of monte_carlo_option_price holds paths payoffs and paths
\* simulated paths, each path with steps + 1 points, the first equal to spot.
C8_ResultShape ==
    (entry = "monte_carlo" /\ pc = "done") =>
        /\ Len(payoffs) = args.paths
        /\ Len(simulated_paths) = args.paths
        /\ \A i \in 1..Len(simulated_paths) :
              /\ Len(simulated_paths[i]) = args.steps + 1
              /\ simulated_paths[i][1] = args.spot

C8_Witness ==
    /\ entry = "monte_carlo" /\ pc = "done"
    /\ args.paths >= 2 /\ args.steps >= 2
    /\ simulated_paths[1] # simulated_paths[2]

\* the globals bind only registered functions, and every binding is a function
OnlyFunctionBindings ==
    \A name \in DOMAIN allowed_globals :
        /\ name \in {"exp", "sqrt", "pi", "max", "min"}
        /\ allowed_globals[name] = "builtin_function"

\* C9: the environment of a compiled payoff exposes only registered function
\* bindings besides price and path: no module object, no other value.
C9_OnlyRegisteredBindings ==
    Accepted => OnlyFunctionBindings

\* C10: every trial draws steps samples and then invokes the payoff once, with
\* the last element of the complete path as the price; a successful call has
\* drawn paths * steps samples and invoked the payoff paths times, and
\* payoffs[i] is the payoff of paths[i].
C10_DrawsThenPayoff ==
    entry = "monte_carlo" =>
        /\ Len(invocations) = Len(simulated_paths)
        /\ \A i \in 1..Len(invocations) :
              /\ invocations[i].path = simulated_paths[i]
              /\ Len(invocations[i].path) = args.steps + 1
              /\ invocations[i].price = Last(invocations[i].path)
        /\ pc = "steps" => /\ draws = Len(simulated_paths) * args.steps + step
                           /\ Len(prices) = step + 1
                           /\ Len(payoffs) = Len(simulated_paths)
        /\ pc \in {"paths", "done"} => /\ draws = Len(simulated_paths) * args.steps
                                       /\ Len(payoffs) = Len(simulated_paths)
        /\ \A i \in 1..Len(payoffs) :
              payoffs[i] = payoff(expression.tree, allowed_globals,
                                  Last(simulated_paths[i]), simulated_paths[i]).n
        /\ pc = "done" => /\ draws = args.paths * args.steps
                          /\ Len(invocations) = args.paths

C10_Witness ==
    /\ entry = "monte_carlo" /\ pc = "done"
    /\ args.paths >= 2 /\ args.steps >= 2
    /\ draws = args.paths * args.steps
    /\ invocations[2].price # args.spot
    /\ payoffs[1] # payoffs[2]

====
